---- MODULE Spec2Model ----
(***************************************************************************)
(* Model of the approval-gated query pipeline of MongoDBSQLAgent           *)
(* (backend/app/mongodbAgent.py): query history stored in a MongoDB        *)
(* collection, retrieval of similar queries (vector search with keyword    *)
(* fallback), SQL generation, the approval gate, execution and storage.    *)
(*                                                                         *)
(* Conventions.  A Python str is a sequence of one-character strings.      *)
(* A nullable Python value is a sequence of length at most one: None is    *)
(* <<>> and a value v is <<v>>.  A dict is a record whose DOMAIN is the    *)
(* set of keys present.  An exception is a record [msg |-> ...].           *)
(***************************************************************************)
EXTENDS Integers, Sequences, FiniteSets, TLC

VARIABLES store, clock, workers, call, prev, ncalls

vars == <<store, clock, workers, call, prev, ncalls>>

(***************************************************************************)
(* Bounds of the model.                                                    *)
(***************************************************************************)
\* total number of operations started over a behaviour
MaxCalls == 2

\* the threads that may serve requests
Procs == {1, 2}

(***************************************************************************)
(* Python values.                                                          *)
(***************************************************************************)
None == <<>>

Some(v) == <<v>>

\* truth value of a nullable bool: None and False are falsy
TruthyBool(v) == v = Some(TRUE)

Min(a, b) == IF a < b THEN a ELSE b

(***************************************************************************)
(* Question texts.  The alphabet has lower-case letters, the upper-case    *)
(* letter S, the blank and the regex metacharacter "(".                    *)
(***************************************************************************)
\* "Sale cost": two words longer than 3 characters, one with a capital
QSaleCost == <<"S", "a", "l", "e", " ", "c", "o", "s", "t">>
\* "top": no word longer than 3 characters
QTop == <<"t", "o", "p">>
\* "cost(": a word longer than 3 characters that is not a valid regex
QCostParen == <<"c", "o", "s", "t", "(">>

Questions == {QSaleCost, QTop, QCostParen}

SQLs == {"SELECT 1", "SELECT 2"}

\* str.lower() on one character
LowerChar(c) ==
    CASE c = "S" -> "s"
      [] c = "Y" -> "y"
      [] c = "N" -> "n"
      [] OTHER -> c

\* str.lower()
Lower(s) == [i \in 1..Len(s) |-> LowerChar(s[i])]

\* str.split(): the maximal runs of non-blank characters, in order
RECURSIVE SplitFrom(_, _, _)
SplitFrom(s, i, cur) ==
    IF i > Len(s)
    THEN IF cur = <<>> THEN <<>> ELSE <<cur>>
    ELSE IF s[i] = " "
         THEN IF cur = <<>> THEN SplitFrom(s, i + 1, <<>>)
              ELSE <<cur>> \o SplitFrom(s, i + 1, <<>>)
         ELSE SplitFrom(s, i + 1, Append(cur, s[i]))

Split(s) == SplitFrom(s, 1, <<>>)

\* sep.join(words)
RECURSIVE Join(_, _)
Join(words, sep) ==
    IF words = <<>> THEN <<>>
    ELSE IF Len(words) = 1 THEN words[1]
    ELSE words[1] \o <<sep>> \o Join(Tail(words), sep)

\* [word for word in words if len(word) > 3]
RECURSIVE LongWords(_)
LongWords(words) ==
    IF words = <<>> THEN <<>>
    ELSE (IF Len(Head(words)) > 3 THEN <<Head(words)>> ELSE <<>>)
         \o LongWords(Tail(words))

\* the keywords of _text_search
Keywords(question) == LongWords(Split(Lower(question)))

\* the $regex pattern of _text_search
KeywordPattern(question) == Join(Keywords(question), "|")

(***************************************************************************)
(* Regular expressions over the alphabet: "|" separates alternatives, "("  *)
(* opens a group and every other character stands for itself.              *)
(***************************************************************************)
\* the alternatives of a pattern: the pieces between the "|"
RECURSIVE AltsFrom(_, _, _)
AltsFrom(p, i, cur) ==
    IF i > Len(p) THEN {cur}
    ELSE IF p[i] = "|" THEN {cur} \cup AltsFrom(p, i + 1, <<>>)
    ELSE AltsFrom(p, i + 1, Append(cur, p[i]))

Alternatives(p) == AltsFrom(p, 1, <<>>)

\* a pattern compiles unless it has a group that is never closed
RegexValid(p) == \A i \in 1..Len(p) : p[i] # "("

\* sub occurs in s as a contiguous substring
Contains(s, sub) ==
    \E i \in 0..(Len(s) - Len(sub)) :
        \A j \in 1..Len(sub) : s[i + j] = sub[j]

\* {"$regex": p, "$options": "i"} matches the text: some alternative occurs
\* in it, letter case ignored
RegexMatch(p, text) ==
    \E a \in Alternatives(p) : Contains(Lower(text), Lower(a))

(***************************************************************************)
(* The external collaborators' possible answers.                           *)
(***************************************************************************)
\* numbers of rows a successful execution may return
RowCounts == {0, 6}

\* durations execute_query may measure
ExecTimes == {2}

\* messages of the exceptions the warehouse may raise
ExecErrors == {"syntax error", "timeout"}

EmbedError == [msg |-> "encode failed"]

FindError == [msg |-> "find failed"]

GenError == [msg |-> "generation failed"]

StoreError == [msg |-> "storage unavailable"]

\* str(e)
Str(e) == e.msg

\* self.model.encode(question).tolist(): a deterministic function of the text
Encode(question) == [of |-> question]

\* hashlib.md5(question.encode()).hexdigest(): a function of the exact text
\* (collisions of distinct texts are not modelled)
Md5(question) == [md5 |-> question]

(***************************************************************************)
(* The collection: a sequence of documents in the store's native order.    *)
(***************************************************************************)
\* an update that keeps the fields of the old document that the new one
\* does not set
ReplaceOneMerge(coll, id, document) ==
    IF \E i \in 1..Len(coll) : coll[i].id = id
    THEN LET i == CHOOSE k \in 1..Len(coll) :
                      /\ coll[k].id = id
                      /\ \A m \in 1..(k - 1) : coll[m].id # id
         IN  [coll EXCEPT ![i] = document @@ coll[i]]
    ELSE Append(coll, document)

\* a write that drops every other document of the collection
ReplaceOneTruncates(coll, id, document) == <<document>>

\* an insert that never looks for the id: every write adds a document
ReplaceOneAppends(coll, id, document) == Append(coll, document)

\* replace_one({"_id": id}, document, upsert=True)
ReplaceOne(coll, id, document) ==
    IF \E i \in 1..Len(coll) : coll[i].id = id
    THEN LET i == CHOOSE k \in 1..Len(coll) :
                      /\ coll[k].id = id
                      /\ \A m \in 1..(k - 1) : coll[m].id # id
         IN  [coll EXCEPT ![i] = document]
    ELSE Append(coll, document)

\* a document that carries a preview only when there were rows
DocumentDropsEmptyPreview(question, sql, execution_time, was_successful, result_preview, now) ==
    LET document == [question |-> question,
                     sql |-> sql,
                     embedding |-> Encode(question),
                     execution_time |-> execution_time,
                     was_successful |-> was_successful,
                     timestamp |-> now,
                     id |-> Md5(question)]
    IN  IF result_preview # None /\ result_preview[1].rows # <<>>
        THEN document @@ [result_preview |-> result_preview[1]]
        ELSE document

\* the document store_query_pair builds; now is datetime.now()
Document(question, sql, execution_time, was_successful, result_preview, now) ==
    LET document == [question |-> question,
                     sql |-> sql,
                     embedding |-> Encode(question),
                     execution_time |-> execution_time,
                     was_successful |-> was_successful,
                     timestamp |-> now,
                     id |-> Md5(question)]
    IN  IF result_preview # None
        THEN document @@ [result_preview |-> result_preview[1]]
        ELSE document

\* the collection after store_query_pair
store_query_pair(coll, question, sql, execution_time, was_successful, result_preview, now) ==
    ReplaceOne(coll, Md5(question),
               Document(question, sql, execution_time, was_successful,
                        result_preview, now))

\* cursor.limit(n): pymongo treats a limit of 0 as no limit
Limit(docs, n) == IF n = 0 THEN docs ELSE SubSeq(docs, 1, Min(n, Len(docs)))

\* the projection {"_id": 0, "question": 1, "sql": 1, "was_successful": 1,
\* "execution_time": 1}
Project(doc) == [question |-> doc.question,
                 sql |-> doc.sql,
                 was_successful |-> doc.was_successful,
                 execution_time |-> doc.execution_time]

\* the documents of coll whose question matches the pattern, in native order
RECURSIVE FindRegex(_, _)
FindRegex(coll, p) ==
    IF coll = <<>> THEN <<>>
    ELSE (IF RegexMatch(p, Head(coll).question)
          THEN <<Project(Head(coll))>> ELSE <<>>)
         \o FindRegex(Tail(coll), p)

\* _text_search raises when the find does: here, when the pattern does not
\* compile
text_search_raises(question) == ~RegexValid(KeywordPattern(question))

\* the result of _text_search when the find succeeds
text_search(coll, question, top_k) ==
    Limit(FindRegex(coll, KeywordPattern(question)), top_k)

\* sequences of distinct indices of coll, of length at most k
RankedIndices(coll, k) ==
    {r \in UNION {[1..n -> 1..Len(coll)] : n \in 0..Min(k, Len(coll))} :
        \A i, j \in 1..Len(r) : i # j => r[i] # r[j]}

\* what the $vectorSearch aggregation may return when the index answers: up
\* to top_k stored documents ranked by the index, projected, with the score
VectorResults(coll, top_k) ==
    {[i \in 1..Len(r) |->
         Project(coll[r[i]]) @@ [score |-> Len(r) - i + 1]] :
     r \in RankedIndices(coll, top_k)}

\* examples built from every similar query, successful or not
RECURSIVE ExamplePairsUnfiltered(_)
ExamplePairsUnfiltered(similar) ==
    IF similar = <<>> THEN <<>>
    ELSE <<[question |-> Head(similar).question, sql |-> Head(similar).sql]>>
         \o ExamplePairsUnfiltered(Tail(similar))

\* examples built from the similar queries that failed
RECURSIVE ExamplePairsOfFailed(_)
ExamplePairsOfFailed(similar) ==
    IF similar = <<>> THEN <<>>
    ELSE (IF ~TruthyBool(Head(similar).was_successful)
          THEN <<[question |-> Head(similar).question,
                  sql |-> Head(similar).sql]>>
          ELSE <<>>)
         \o ExamplePairsOfFailed(Tail(similar))

\* the few-shot examples generate_sql builds from the similar queries
RECURSIVE ExamplePairs(_)
ExamplePairs(similar) ==
    IF similar = <<>> THEN <<>>
    ELSE (IF TruthyBool(Head(similar).was_successful)
          THEN <<[question |-> Head(similar).question,
                  sql |-> Head(similar).sql]>>
          ELSE <<>>)
         \o ExamplePairs(Tail(similar))

\* a preview of the whole result set
PreviewWhole(df) ==
    IF df = <<>> THEN [text |-> "No results", rows |-> <<>>]
    ELSE [text |-> "table", rows |-> df]

\* df.head(5).to_string() if not df.empty else "No results"
Preview(df) ==
    IF df = <<>> THEN [text |-> "No results", rows |-> <<>>]
    ELSE [text |-> "table", rows |-> SubSeq(df, 1, Min(5, Len(df)))]

\* the rows of a result set of n rows
Rows(n) == [i \in 1..n |-> i]

(***************************************************************************)
(* State.                                                                  *)
(*   store   the query_history collection                                  *)
(*   clock   the wall clock, read by datetime.now()                        *)
(*   workers the threads serving requests in this deployment               *)
(*   call    per worker, the operation in progress: its arguments, its     *)
(*           position (pc), its locals, and a record of the calls it has   *)
(*           made to the Generator, the Executor and store_query_pair      *)
(*   prev    per worker, the question and the SQL of the preview its       *)
(*           client is holding: set when its last call returned at the     *)
(*           approval gate, None otherwise                                 *)
(*   ncalls  number of operations started so far                           *)
(***************************************************************************)
\* the default top_k of find_similar_queries
DefaultTopK == 3

\* the default limit of get_query_history
DefaultLimit == 10

NoCall ==
    [op |-> "none", pc |-> "idle", question |-> <<>>,
     store_results |-> FALSE, require_approval |-> FALSE, approved |-> FALSE,
     top_k |-> DefaultTopK, limit |-> DefaultLimit,
     cli |-> "none", answer |-> None,
     similar |-> <<>>, sql |-> None,
     was_successful |-> None, error_message |-> None, execution_time |-> 0,
     df |-> None, result_preview |-> None,
     response |-> None, raised |-> None,
     vectorOut |-> None,
     genCalls |-> 0, genExamples |-> None, genOut |-> None,
     execCalls |-> 0, execSql |-> None, execRaised |-> None, execOut |-> None,
     upsertCalls |-> 0, upsertArgs |-> None,
     failed |-> {}, trace |-> <<>>]

NewCall(op, question, store_results, require_approval, approved, top_k) ==
    [NoCall EXCEPT !.op = op, !.pc = "embed", !.question = question,
                   !.store_results = store_results,
                   !.require_approval = require_approval,
                   !.approved = approved, !.top_k = top_k]

\* the preview a finished call has handed to its client, if any
Summary(c) ==
    IF c.pc = "returned" /\ c.op = "query"
       /\ "awaiting_approval" \in DOMAIN c.response[1]
    THEN Some([question |-> c.question, sql |-> c.sql[1],
               genCalls |-> c.genCalls])
    ELSE None

Finished(c) == c.pc \in {"idle", "returned", "raised"}

\* a history left by earlier runs: "Sale cost" stored after a successful
\* execution, then "cost(" stored after a failed one
SeededStore ==
    store_query_pair(
        store_query_pair(<<>>, QSaleCost, "SELECT 1", 2, Some(TRUE),
                         Some(Preview(Rows(6))), 1),
        QCostParen, "SELECT 2", 0, Some(FALSE), None, 2)

\* the collection is empty or holds the history of earlier runs
InitStore ==
    \/ store = <<>> /\ clock = 1
    \/ store = SeededStore /\ clock = 3

Init ==
    /\ InitStore
    /\ workers = {1}
    /\ call = [p \in Procs |-> NoCall]
    /\ prev = [p \in Procs |-> None]
    /\ ncalls = 0

\* an exception turned into an error response
RaiseSwallowed(c, e, who) ==
    [c EXCEPT !.pc = "returned", !.response = Some([error_message |-> Str(e)]),
              !.failed = @ \cup {who}]

\* an exception leaves the operation: nothing is returned
Raise(c, e, who) ==
    [c EXCEPT !.pc = "raised", !.raised = Some(e),
              !.failed = @ \cup {who}]

\* a request for query(question, store_results, require_approval, approved)
QueryStart(p) ==
    /\ p \in workers
    /\ Finished(call[p])
    /\ ncalls < MaxCalls
    /\ \E q \in Questions, sr \in BOOLEAN, ra \in BOOLEAN, ap \in BOOLEAN :
          call' = [call EXCEPT
                     ![p] = NewCall("query", q, sr, ra, ap, DefaultTopK)]
    /\ prev' = [prev EXCEPT ![p] = Summary(call[p])]
    /\ ncalls' = ncalls + 1
    /\ UNCHANGED <<store, clock, workers>>

\* an embedding after which the Generator is called at once, before any
\* retrieval
EmbedStepSkipsRetrieval(p) ==
    /\ call[p].pc = "embed"
    /\ \/ call' = [call EXCEPT ![p].pc = IF call[p].op = "query"
                                        THEN "generate" ELSE "vector",
                               ![p].trace = Append(@, "embed")]
       \/ call' = [call EXCEPT ![p] = Raise(@, EmbedError, "embedder")]
    /\ UNCHANGED <<store, clock, workers, prev, ncalls>>

\* find_similar_queries: embedding = self.model.encode(question).tolist()
EmbedStep(p) ==
    /\ call[p].pc = "embed"
    /\ \/ call' = [call EXCEPT ![p].pc = "vector",
                               ![p].trace = Append(@, "embed")]
       \/ call' = [call EXCEPT ![p] = Raise(@, EmbedError, "embedder")]
    /\ UNCHANGED <<store, clock, workers, prev, ncalls>>

\* a vector search whose error is not caught
VectorStepRaises(p) ==
    /\ call[p].pc = "vector"
    /\ \/ \E res \in VectorResults(store, call[p].top_k) :
             call' = [call EXCEPT
                        ![p].similar = res,
                        ![p].vectorOut = Some(res),
                        ![p].pc = IF res # <<>> THEN "generate" ELSE "text",
                        ![p].trace = Append(@, "vector")]
       \/ call' = [call EXCEPT
                     ![p] = Raise([@ EXCEPT !.trace = Append(@, "vector")],
                                  FindError, "vector")]
    /\ UNCHANGED <<store, clock, workers, prev, ncalls>>

\* find_similar_queries: the try block around _vector_search.  An error of
\* the aggregation is caught inside _vector_search, which then returns [].
VectorStep(p) ==
    /\ call[p].pc = "vector"
    /\ \/ \E res \in VectorResults(store, call[p].top_k) :
             call' = [call EXCEPT
                        ![p].similar = res,
                        ![p].vectorOut = Some(res),
                        ![p].pc = IF res # <<>> THEN "generate" ELSE "text",
                        ![p].trace = Append(@, "vector")]
       \/ call' = [call EXCEPT ![p].pc = "text",
                               ![p].failed = @ \cup {"vector"},
                               ![p].trace = Append(@, "vector")]
    /\ UNCHANGED <<store, clock, workers, prev, ncalls>>

\* find_similar_queries: return self._text_search(question, top_k)
TextStep(p) ==
    /\ call[p].pc = "text"
    /\ \/ /\ ~text_search_raises(call[p].question)
          /\ call' = [call EXCEPT
                        ![p].similar =
                            text_search(store, call[p].question, call[p].top_k),
                        ![p].pc = "generate",
                        ![p].trace = Append(@, "text")]
       \/ call' = [call EXCEPT ![p] = Raise(@, FindError, "text")]
    /\ UNCHANGED <<store, clock, workers, prev, ncalls>>

\* generate_sql: "if example_pairs:" passes the examples, otherwise the
\* Generator is called without the examples argument (None here)
GenArgs(example_pairs) ==
    IF example_pairs # <<>> THEN Some(example_pairs) ELSE None

\* a gate that never stops the call
AwaitsApprovalNever(require_approval, approved) == FALSE

\* a gate that forgets require_approval
AwaitsApprovalIgnoresRequire(require_approval, approved) == ~approved

\* query: "if require_approval and not approved:" returns before execution
AwaitsApproval(require_approval, approved) == require_approval /\ ~approved

\* a preview that echoes the approved argument instead of flagging that
\* it awaits approval
PreviewResponseEchoesApproved(c, sql) ==
    [question |-> c.question,
     sql |-> sql,
     requires_approval |-> TRUE,
     was_successful |-> None,
     execution_time |-> 0,
     similar_queries |-> c.similar,
     approved |-> c.approved]

\* the dict query returns at the approval gate
PreviewResponse(c, sql) ==
    [question |-> c.question,
     sql |-> sql,
     requires_approval |-> TRUE,
     was_successful |-> None,
     execution_time |-> 0,
     similar_queries |-> c.similar,
     awaiting_approval |-> TRUE]

\* generation that reuses the SQL of the preview the client is holding when
\* the approved call arrives, instead of calling the Generator again
GenerateStepCached(p) ==
    /\ call[p].pc = "generate"
    /\ call[p].op = "query"
    /\ LET c == call[p]
           args == GenArgs(ExamplePairs(c.similar))
           invoked == [c EXCEPT !.genCalls = @ + 1, !.genExamples = args,
                                !.trace = Append(@, "generate")]
           cached == /\ prev[p] # None
                     /\ prev[p][1].question = c.question
                     /\ c.approved
       IN  \/ /\ cached
              /\ call' = [call EXCEPT
                            ![p] = [c EXCEPT
                                      !.sql = Some(prev[p][1].sql),
                                      !.pc = "execute",
                                      !.trace = Append(@, "generate")]]
           \/ /\ ~cached
              /\ \E sql \in SQLs :
                    LET got == [invoked EXCEPT !.sql = Some(sql),
                                               !.genOut = Some(sql)]
                    IN  call' = [call EXCEPT ![p] =
                            IF AwaitsApproval(c.require_approval, c.approved)
                            THEN [got EXCEPT !.pc = "returned",
                                             !.response =
                                                 Some(PreviewResponse(c, sql))]
                            ELSE [got EXCEPT !.pc = "execute"]]
           \/ /\ ~cached
              /\ call' = [call EXCEPT
                            ![p] = Raise(invoked, GenError, "generator")]
    /\ UNCHANGED <<store, clock, workers, prev, ncalls>>

\* generate_sql from the similar queries on, then the approval gate of query
GenerateStep(p) ==
    /\ call[p].pc = "generate"
    /\ call[p].op = "query"
    /\ LET c == call[p]
           args == GenArgs(ExamplePairs(c.similar))
           invoked == [c EXCEPT !.genCalls = @ + 1, !.genExamples = args,
                                !.trace = Append(@, "generate")]
       IN  \/ \E sql \in SQLs :
                LET got == [invoked EXCEPT !.sql = Some(sql),
                                           !.genOut = Some(sql)]
                IN  call' = [call EXCEPT ![p] =
                        IF AwaitsApproval(c.require_approval, c.approved)
                        THEN [got EXCEPT !.pc = "returned",
                                         !.response =
                                             Some(PreviewResponse(c, sql))]
                        ELSE [got EXCEPT !.pc = "execute"]]
           \/ call' = [call EXCEPT ![p] = Raise(invoked, GenError, "generator")]
    /\ UNCHANGED <<store, clock, workers, prev, ncalls>>

\* an except branch that leaves a "No results" preview behind
ExecFailureKeepsPreview(c, e) ==
    [c EXCEPT !.was_successful = Some(FALSE),
              !.error_message = Some(Str(e)),
              !.execution_time = 0,
              !.df = None,
              !.result_preview = Some(Preview(<<>>))]

\* an except branch that reports a fixed message
ExecFailureGenericMessage(c, e) ==
    [c EXCEPT !.was_successful = Some(FALSE),
              !.error_message = Some("Unknown error"),
              !.execution_time = 0,
              !.df = None,
              !.result_preview = None]

\* an except branch that keeps a measured duration
ExecFailureTimed(c, e) ==
    [c EXCEPT !.was_successful = Some(FALSE),
              !.error_message = Some(Str(e)),
              !.execution_time = 2,
              !.df = None,
              !.result_preview = None]

\* query: the locals after the except branch of the execution
ExecFailure(c, e) ==
    [c EXCEPT !.was_successful = Some(FALSE),
              !.error_message = Some(Str(e)),
              !.execution_time = 0,
              !.df = None,
              !.result_preview = None]

\* query: the locals at the end of the try block of the execution
ExecSuccess(c, rows, execution_time) ==
    [c EXCEPT !.was_successful = Some(TRUE),
              !.error_message = None,
              !.execution_time = execution_time,
              !.df = Some(rows),
              !.result_preview = Some(Preview(rows))]

\* query: the try/except around execute_query
ExecuteStep(p) ==
    /\ call[p].pc = "execute"
    /\ LET c == call[p]
           invoked == [c EXCEPT !.execCalls = @ + 1, !.execSql = c.sql,
                                !.pc = "store",
                                !.trace = Append(@, "execute")]
       IN  \/ \E n \in RowCounts, t \in ExecTimes :
                call' = [call EXCEPT
                           ![p] = ExecSuccess(
                                      [invoked EXCEPT
                                         !.execOut = Some([rows |-> Rows(n),
                                                           time |-> t])],
                                      Rows(n), t)]
           \/ \E m \in ExecErrors :
                call' = [call EXCEPT
                           ![p] = ExecFailure(
                                      [invoked EXCEPT
                                         !.failed = @ \cup {"executor"},
                                         !.execRaised = Some([msg |-> m])],
                                      [msg |-> m])]
    /\ UNCHANGED <<store, clock, workers, prev, ncalls>>

\* arguments that leave the measured duration out
UpsertArgsUntimed(c) ==
    [question |-> c.question,
     sql |-> c.sql[1],
     execution_time |-> 0,
     was_successful |-> c.was_successful,
     result_preview |-> c.result_preview]

\* the arguments query passes to store_query_pair
UpsertArgs(c) ==
    [question |-> c.question,
     sql |-> c.sql[1],
     execution_time |-> c.execution_time,
     was_successful |-> c.was_successful,
     result_preview |-> c.result_preview]

\* the dict query returns after the execution
Response(c) ==
    LET response == [question |-> c.question,
                     sql |-> c.sql[1],
                     was_successful |-> c.was_successful,
                     execution_time |-> c.execution_time,
                     similar_queries |-> c.similar,
                     requires_approval |-> c.require_approval,
                     approved |-> c.approved]
    IN  IF TruthyBool(c.was_successful)
        THEN response @@ [results |-> c.df,
                          result_preview |-> c.result_preview[1]]
        ELSE response @@ [error_message |-> c.error_message[1]]

\* a store step that writes the pair whatever store_results says
StoreStepAlways(p) ==
    /\ call[p].pc = "store"
    /\ LET c == call[p]
           a == UpsertArgs(c)
           invoked == [c EXCEPT !.upsertCalls = @ + 1, !.upsertArgs = Some(a),
                                !.trace = Append(@, "store")]
       IN  IF TRUE
           THEN \/ /\ store' = store_query_pair(store, a.question, a.sql,
                                                a.execution_time,
                                                a.was_successful,
                                                a.result_preview, clock)
                   /\ clock' = clock + 1
                   /\ call' = [call EXCEPT
                                 ![p] = [invoked EXCEPT
                                           !.pc = "returned",
                                           !.response = Some(Response(c))]]
                \/ /\ call' = [call EXCEPT
                                 ![p] = Raise(invoked, EmbedError,
                                              "store_embedder")]
                   /\ UNCHANGED <<store, clock>>
                \/ /\ call' = [call EXCEPT
                                 ![p] = Raise(invoked, StoreError, "store")]
                   /\ UNCHANGED <<store, clock>>
           ELSE /\ call' = [call EXCEPT
                              ![p] = [c EXCEPT !.pc = "returned",
                                               !.response = Some(Response(c))]]
                /\ UNCHANGED <<store, clock>>
    /\ UNCHANGED <<workers, prev, ncalls>>

\* a store step that swallows the errors of store_query_pair and answers
StoreStepCatches(p) ==
    /\ call[p].pc = "store"
    /\ LET c == call[p]
           a == UpsertArgs(c)
           invoked == [c EXCEPT !.upsertCalls = @ + 1, !.upsertArgs = Some(a),
                                !.trace = Append(@, "store")]
       IN  IF c.store_results
           THEN \/ /\ store' = store_query_pair(store, a.question, a.sql,
                                                a.execution_time,
                                                a.was_successful,
                                                a.result_preview, clock)
                   /\ clock' = clock + 1
                   /\ call' = [call EXCEPT
                                 ![p] = [invoked EXCEPT
                                           !.pc = "returned",
                                           !.response = Some(Response(c))]]
                \/ /\ call' = [call EXCEPT
                                 ![p] = [invoked EXCEPT
                                           !.pc = "returned",
                                           !.failed = @ \cup {"store_embedder"},
                                           !.response = Some(Response(c))]]
                   /\ UNCHANGED <<store, clock>>
                \/ /\ call' = [call EXCEPT
                                 ![p] = [invoked EXCEPT
                                           !.pc = "returned",
                                           !.failed = @ \cup {"store"},
                                           !.response = Some(Response(c))]]
                   /\ UNCHANGED <<store, clock>>
           ELSE /\ call' = [call EXCEPT
                              ![p] = [c EXCEPT !.pc = "returned",
                                               !.response = Some(Response(c))]]
                /\ UNCHANGED <<store, clock>>
    /\ UNCHANGED <<workers, prev, ncalls>>

\* query: "if store_results:" store_query_pair, then the response
StoreStep(p) ==
    /\ call[p].pc = "store"
    /\ LET c == call[p]
           a == UpsertArgs(c)
           invoked == [c EXCEPT !.upsertCalls = @ + 1, !.upsertArgs = Some(a),
                                !.trace = Append(@, "store")]
       IN  IF c.store_results
           THEN \/ /\ store' = store_query_pair(store, a.question, a.sql,
                                                a.execution_time,
                                                a.was_successful,
                                                a.result_preview, clock)
                   /\ clock' = clock + 1
                   /\ call' = [call EXCEPT
                                 ![p] = [invoked EXCEPT
                                           !.pc = "returned",
                                           !.response = Some(Response(c))]]
                \/ /\ call' = [call EXCEPT
                                 ![p] = Raise(invoked, EmbedError,
                                              "store_embedder")]
                   /\ UNCHANGED <<store, clock>>
                \/ /\ call' = [call EXCEPT
                                 ![p] = Raise(invoked, StoreError, "store")]
                   /\ UNCHANGED <<store, clock>>
           ELSE /\ call' = [call EXCEPT
                              ![p] = [c EXCEPT !.pc = "returned",
                                               !.response = Some(Response(c))]]
                /\ UNCHANGED <<store, clock>>
    /\ UNCHANGED <<workers, prev, ncalls>>


(***************************************************************************)
(* The endpoints of api.py that reach the history beside /query.           *)
(***************************************************************************)
\* the values of top_k a client passes to /similar-queries
TopKs == {0, 1, 3}

\* GET /similar-queries/{question}?top_k=k
FindStart(p) ==
    /\ p \in workers
    /\ Finished(call[p])
    /\ ncalls < MaxCalls
    /\ \E q \in Questions, k \in TopKs :
          call' = [call EXCEPT
                     ![p] = NewCall("find_similar", q, FALSE, FALSE, FALSE, k)]
    /\ prev' = [prev EXCEPT ![p] = Summary(call[p])]
    /\ ncalls' = ncalls + 1
    /\ UNCHANGED <<store, clock, workers>>

\* get_similar_queries: return {"similar_queries": similar_queries}
FindReturn(p) ==
    /\ call[p].pc = "generate"
    /\ call[p].op = "find_similar"
    /\ call' = [call EXCEPT
                  ![p].pc = "returned",
                  ![p].response =
                      Some([similar_queries |-> call[p].similar])]
    /\ UNCHANGED <<store, clock, workers, prev, ncalls>>

\* POST /generate-sql with a QuestionRequest: only the question is read
GenerateOnlyStart(p) ==
    /\ p \in workers
    /\ Finished(call[p])
    /\ ncalls < MaxCalls
    /\ \E q \in Questions, sr \in BOOLEAN, ra \in BOOLEAN, ap \in BOOLEAN :
          call' = [call EXCEPT
                     ![p] = NewCall("generate_sql", q, sr, ra, ap,
                                    DefaultTopK)]
    /\ prev' = [prev EXCEPT ![p] = Summary(call[p])]
    /\ ncalls' = ncalls + 1
    /\ UNCHANGED <<store, clock, workers>>

\* a generate-only step that goes on to the execution when the request
\* does not ask for approval or is approved
GenerateOnlyStepGated(p) ==
    /\ call[p].pc = "generate"
    /\ call[p].op = "generate_sql"
    /\ LET c == call[p]
           args == GenArgs(ExamplePairs(c.similar))
           invoked == [c EXCEPT !.genCalls = @ + 1, !.genExamples = args,
                                !.trace = Append(@, "generate")]
       IN  \/ \E sql \in SQLs :
                LET got == [invoked EXCEPT !.sql = Some(sql),
                                           !.genOut = Some(sql)]
                IN  call' = [call EXCEPT ![p] =
                        IF AwaitsApproval(c.require_approval, c.approved)
                        THEN [got EXCEPT
                                !.pc = "returned",
                                !.response =
                                    Some([question |-> c.question,
                                          sql |-> sql,
                                          similar_queries |-> c.similar])]
                        ELSE [got EXCEPT !.pc = "execute"]]
           \/ call' = [call EXCEPT ![p] = Raise(invoked, GenError, "generator")]
    /\ UNCHANGED <<store, clock, workers, prev, ncalls>>

\* generate_sql from the similar queries on, then the dict the endpoint
\* returns
GenerateOnlyStep(p) ==
    /\ call[p].pc = "generate"
    /\ call[p].op = "generate_sql"
    /\ LET c == call[p]
           args == GenArgs(ExamplePairs(c.similar))
           invoked == [c EXCEPT !.genCalls = @ + 1, !.genExamples = args,
                                !.trace = Append(@, "generate")]
       IN  \/ \E sql \in SQLs :
                call' = [call EXCEPT
                           ![p] = [invoked EXCEPT
                                     !.sql = Some(sql),
                                     !.genOut = Some(sql),
                                     !.pc = "returned",
                                     !.response =
                                         Some([question |-> c.question,
                                               sql |-> sql,
                                               similar_queries |->
                                                   c.similar])]]
           \/ call' = [call EXCEPT ![p] = Raise(invoked, GenError, "generator")]
    /\ UNCHANGED <<store, clock, workers, prev, ncalls>>

\* the values of limit a client passes to /history
HistoryLimits == {0, 1, 2}

\* the projection {"_id": 0, "question": 1, "sql": 1, "was_successful": 1,
\* "execution_time": 1, "timestamp": 1}
ProjectHistory(doc) == [question |-> doc.question,
                        sql |-> doc.sql,
                        was_successful |-> doc.was_successful,
                        execution_time |-> doc.execution_time,
                        timestamp |-> doc.timestamp]

\* entry["timestamp"].isoformat(): the datetime as text
Isoformat(entry) == [entry EXCEPT !.timestamp = [iso |-> @]]

\* cursor.sort("timestamp", -1): the documents, latest timestamp first
RECURSIVE SortByTimestampDescending(_)
SortByTimestampDescending(docs) ==
    IF docs = <<>> THEN <<>>
    ELSE LET m == CHOOSE i \in 1..Len(docs) :
                     /\ \A j \in 1..Len(docs) :
                           docs[j].timestamp <= docs[i].timestamp
                     /\ \A j \in 1..(i - 1) :
                           docs[j].timestamp < docs[i].timestamp
             rest == [k \in 1..(Len(docs) - 1) |->
                         IF k < m THEN docs[k] ELSE docs[k + 1]]
         IN  <<docs[m]>> \o SortByTimestampDescending(rest)

\* get_query_history(limit)
get_query_history(coll, limit) ==
    LET found == [i \in 1..Len(coll) |-> ProjectHistory(coll[i])]
        history == Limit(SortByTimestampDescending(found), limit)
    IN  [i \in 1..Len(history) |-> Isoformat(history[i])]

\* GET /history?limit=n: one read of the collection
History(p) ==
    /\ p \in workers
    /\ Finished(call[p])
    /\ ncalls < MaxCalls
    /\ \E n \in HistoryLimits :
          LET c == [NewCall("history", <<>>, FALSE, FALSE, FALSE, DefaultTopK)
                      EXCEPT !.limit = n]
          IN  \/ call' = [call EXCEPT
                            ![p] = [c EXCEPT
                                      !.pc = "returned",
                                      !.response =
                                          Some([history |->
                                                  get_query_history(store,
                                                                    n)])]]
              \/ call' = [call EXCEPT ![p] = Raise(c, FindError, "history")]
    /\ prev' = [prev EXCEPT ![p] = Summary(call[p])]
    /\ ncalls' = ncalls + 1
    /\ UNCHANGED <<store, clock, workers>>

\* the exceptions store_query_pair may raise: of the Embedder or of the store
UpsertErrors == {EmbedError, StoreError}

\* f" (Additionally, failed to store query: {store_error})"
Additionally(e) ==
    IF e = StoreError
    THEN "(Additionally, failed to store query: storage unavailable)"
    ELSE "(Additionally, failed to store query: encode failed)"

\* "failed to store" in error_message, the message being a sequence of parts
MentionsFailedToStore(parts) ==
    \E i \in 1..Len(parts) : \E e \in UpsertErrors : parts[i] = Additionally(e)

\* POST /store-question-sql-pair with a question, an SQL and store_results
PairStart(p) ==
    /\ p \in workers
    /\ Finished(call[p])
    /\ ncalls < MaxCalls
    /\ \E q \in Questions, sql \in SQLs, sr \in BOOLEAN :
          call' = [call EXCEPT
                     ![p] = [NewCall("store_pair", q, sr, FALSE, FALSE,
                                     DefaultTopK)
                               EXCEPT !.pc = "pair_execute",
                                      !.sql = Some(sql)]]
    /\ prev' = [prev EXCEPT ![p] = Summary(call[p])]
    /\ ncalls' = ncalls + 1
    /\ UNCHANGED <<store, clock, workers>>

\* store_question_sql_pair: the locals when the outer except is entered
PairFailure(c, e) ==
    [c EXCEPT !.was_successful = Some(FALSE),
              !.error_message = Some(<<Str(e)>>),
              !.pc = "pair_store_failed"]

\* store_question_sql_pair: execute_query(request.sql) inside the outer try
PairExecute(p) ==
    /\ call[p].pc = "pair_execute"
    /\ LET c == call[p]
           invoked == [c EXCEPT !.execCalls = @ + 1, !.execSql = c.sql,
                                !.trace = Append(@, "execute")]
       IN  \/ \E n \in RowCounts, t \in ExecTimes :
                call' = [call EXCEPT
                           ![p] = ExecSuccess(
                                      [invoked EXCEPT
                                         !.pc = "pair_store",
                                         !.execOut = Some([rows |-> Rows(n),
                                                           time |-> t])],
                                      Rows(n), t)]
           \/ \E m \in ExecErrors :
                call' = [call EXCEPT
                           ![p] = PairFailure(
                                      [invoked EXCEPT
                                         !.failed = @ \cup {"executor"},
                                         !.execRaised = Some([msg |-> m])],
                                      [msg |-> m])]
    /\ UNCHANGED <<store, clock, workers, prev, ncalls>>

\* the dict store_question_sql_pair returns from its try block
PairResponse(c) ==
    [question |-> c.question,
     sql |-> c.sql[1],
     was_successful |-> c.was_successful,
     execution_time |-> c.execution_time,
     results |-> c.df[1],
     result_preview |-> c.result_preview[1],
     stored |-> c.store_results]

\* the dict store_question_sql_pair returns from its except block
PairFailureResponse(c, error_message) ==
    [question |-> c.question,
     sql |-> c.sql[1],
     was_successful |-> Some(FALSE),
     error_message |-> error_message,
     stored |-> c.store_results /\ ~MentionsFailedToStore(error_message)]

\* store_question_sql_pair: the rest of the try block after a successful
\* execution; an error of store_query_pair enters the outer except
PairStore(p) ==
    /\ call[p].pc = "pair_store"
    /\ LET c == call[p]
           a == UpsertArgs(c)
           invoked == [c EXCEPT !.upsertCalls = @ + 1, !.upsertArgs = Some(a),
                                !.trace = Append(@, "store")]
       IN  IF c.store_results
           THEN \/ /\ store' = store_query_pair(store, a.question, a.sql,
                                                a.execution_time,
                                                a.was_successful,
                                                a.result_preview, clock)
                   /\ clock' = clock + 1
                   /\ call' = [call EXCEPT
                                 ![p] = [invoked EXCEPT
                                           !.pc = "returned",
                                           !.response =
                                               Some(PairResponse(c))]]
                \/ /\ \E e \in UpsertErrors :
                        call' = [call EXCEPT
                                   ![p] = PairFailure(
                                              [invoked EXCEPT
                                                 !.failed = @ \cup {"store"}],
                                              e)]
                   /\ UNCHANGED <<store, clock>>
           ELSE /\ call' = [call EXCEPT
                              ![p] = [c EXCEPT !.pc = "returned",
                                               !.response =
                                                   Some(PairResponse(c))]]
                /\ UNCHANGED <<store, clock>>
    /\ UNCHANGED <<workers, prev, ncalls>>

\* store_question_sql_pair: the except block: the pair is stored as
\* unsuccessful if requested, an error of that write is appended to the
\* message, and the failure dict is returned
PairStoreFailed(p) ==
    /\ call[p].pc = "pair_store_failed"
    /\ LET c == call[p]
           a == [question |-> c.question, sql |-> c.sql[1],
                 execution_time |-> 0, was_successful |-> Some(FALSE),
                 result_preview |-> None]
           invoked == [c EXCEPT !.upsertCalls = @ + 1, !.upsertArgs = Some(a),
                                !.trace = Append(@, "store")]
       IN  IF c.store_results
           THEN \/ /\ store' = store_query_pair(store, a.question, a.sql,
                                                a.execution_time,
                                                a.was_successful,
                                                a.result_preview, clock)
                   /\ clock' = clock + 1
                   /\ call' = [call EXCEPT
                                 ![p] = [invoked EXCEPT
                                           !.pc = "returned",
                                           !.response =
                                               Some(PairFailureResponse(
                                                        c, c.error_message[1]))]]
                \/ /\ \E e \in UpsertErrors :
                        LET message == Append(c.error_message[1],
                                              Additionally(e))
                        IN  call' = [call EXCEPT
                                       ![p] = [invoked EXCEPT
                                                 !.pc = "returned",
                                                 !.failed = @ \cup {"store"},
                                                 !.error_message =
                                                     Some(message),
                                                 !.response =
                                                     Some(PairFailureResponse(
                                                              c, message))]]
                   /\ UNCHANGED <<store, clock>>
           ELSE /\ call' = [call EXCEPT
                              ![p] = [c EXCEPT
                                        !.pc = "returned",
                                        !.response =
                                            Some(PairFailureResponse(
                                                     c, c.error_message[1]))]]
                /\ UNCHANGED <<store, clock>>
    /\ UNCHANGED <<workers, prev, ncalls>>

Next ==
    \E p \in Procs :
        \/ QueryStart(p)
        \/ EmbedStep(p)
        \/ VectorStep(p)
        \/ TextStep(p)
        \/ GenerateStep(p)
        \/ ExecuteStep(p)
        \/ StoreStep(p)

Spec == Init /\ [][Next]_vars

\* the requests of every endpoint, in any order
NextApi ==
    \E p \in Procs :
        \/ QueryStart(p)
        \/ EmbedStep(p)
        \/ VectorStep(p)
        \/ TextStep(p)
        \/ GenerateStep(p)
        \/ ExecuteStep(p)
        \/ StoreStep(p)
        \/ FindStart(p)
        \/ FindReturn(p)
        \/ PairStart(p)
        \/ PairExecute(p)
        \/ PairStore(p)
        \/ PairStoreFailed(p)
        \/ GenerateOnlyStart(p)
        \/ GenerateOnlyStep(p)
        \/ History(p)

SpecApi == Init /\ [][NextApi]_vars

(***************************************************************************)
(* The command line of cli.py: a question is previewed, the user is asked, *)
(* and the question is run again as approved; --no-approval runs it at     *)
(* once.  The field cli of the call tells where the command line stands:   *)
(* "preview" (the first call, then the prompt), "cancelled", "confirmed"   *)
(* (the user said yes, the second call is to come), "approved" (the second *)
(* call) and "direct" (--no-approval).                                     *)
(***************************************************************************)
\* what the user may type at the prompt
Answers ==
    {<<"y">>, <<" ", "Y", "e", "s">>, <<"N">>, <<"n", "o", " ">>,
     <<"o", "k">>}

\* str.strip(), for blanks
RECURSIVE Strip(_)
Strip(s) ==
    IF s = <<>> THEN s
    ELSE IF Head(s) = " " THEN Strip(Tail(s))
    ELSE IF s[Len(s)] = " " THEN Strip(SubSeq(s, 1, Len(s) - 1))
    ELSE s

\* the command line can take a question: no call is running, and it is not
\* between the preview and the approved call
CliReady(c) ==
    /\ Finished(c)
    /\ ~(c.cli = "preview" /\ c.pc = "returned")
    /\ c.cli # "confirmed"

\* main, without --no-approval: agent.query(question, require_approval=True,
\* approved=False)
CliAsk(p) ==
    /\ p \in workers
    /\ CliReady(call[p])
    /\ ncalls < MaxCalls
    /\ \E q \in Questions :
          call' = [call EXCEPT
                     ![p] = [NewCall("query", q, TRUE, TRUE, FALSE,
                                     DefaultTopK)
                               EXCEPT !.cli = "preview"]]
    /\ prev' = [prev EXCEPT ![p] = Summary(call[p])]
    /\ ncalls' = ncalls + 1
    /\ UNCHANGED <<store, clock, workers>>

\* main, with --no-approval: agent.query(question, require_approval=False)
CliDirect(p) ==
    /\ p \in workers
    /\ CliReady(call[p])
    /\ ncalls < MaxCalls
    /\ \E q \in Questions :
          call' = [call EXCEPT
                     ![p] = [NewCall("query", q, TRUE, FALSE, FALSE,
                                     DefaultTopK)
                               EXCEPT !.cli = "direct"]]
    /\ prev' = [prev EXCEPT ![p] = Summary(call[p])]
    /\ ncalls' = ncalls + 1
    /\ UNCHANGED <<store, clock, workers>>

\* a prompt that takes anything but n/no for a yes
get_user_approvalLenient(p) ==
    /\ call[p].cli = "preview"
    /\ call[p].pc = "returned"
    /\ \E typed \in Answers :
          LET response == Lower(Strip(typed))
          IN  IF response \in {<<"n">>, <<"n", "o">>}
              THEN call' = [call EXCEPT ![p].cli = "cancelled",
                                        ![p].answer = Some(response)]
              ELSE call' = [call EXCEPT ![p].cli = "confirmed",
                                        ![p].answer = Some(response)]
    /\ UNCHANGED <<store, clock, workers, prev, ncalls>>

\* get_user_approval(result["sql"]), one input() per step: y/yes is an
\* approval, n/no a refusal ("Query execution cancelled."), anything else
\* asks again
get_user_approval(p) ==
    /\ call[p].cli = "preview"
    /\ call[p].pc = "returned"
    /\ \E typed \in Answers :
          LET response == Lower(Strip(typed))
          IN  IF response \in {<<"y">>, <<"y", "e", "s">>}
              THEN call' = [call EXCEPT ![p].cli = "confirmed",
                                        ![p].answer = Some(response)]
              ELSE IF response \in {<<"n">>, <<"n", "o">>}
              THEN call' = [call EXCEPT ![p].cli = "cancelled",
                                        ![p].answer = Some(response)]
              ELSE UNCHANGED call
    /\ UNCHANGED <<store, clock, workers, prev, ncalls>>

\* main, after the approval: agent.query(question, require_approval=True,
\* approved=True)
CliExecute(p) ==
    /\ p \in workers
    /\ call[p].cli = "confirmed"
    /\ ncalls < MaxCalls
    /\ call' = [call EXCEPT
                  ![p] = [NewCall("query", call[p].question, TRUE, TRUE, TRUE,
                                  DefaultTopK)
                            EXCEPT !.cli = "approved",
                                   !.answer = call[p].answer]]
    /\ prev' = [prev EXCEPT ![p] = Summary(call[p])]
    /\ ncalls' = ncalls + 1
    /\ UNCHANGED <<store, clock, workers>>

NextCli ==
    \E p \in Procs :
        \/ CliAsk(p)
        \/ CliDirect(p)
        \/ get_user_approval(p)
        \/ CliExecute(p)
        \/ EmbedStep(p)
        \/ VectorStep(p)
        \/ TextStep(p)
        \/ GenerateStep(p)
        \/ ExecuteStep(p)
        \/ StoreStep(p)

SpecCli == Init /\ [][NextCli]_vars

(***************************************************************************)
(* The two-call approval flow with a Generator that is a function of its   *)
(* arguments: the same question and the same examples give the same SQL.   *)
(***************************************************************************)
\* self.vn.generate_sql(question=..., examples=...) when it is deterministic:
\* the SQL depends on whether examples are passed and on how many
Generator(question, examples) ==
    IF examples = None THEN "SELECT 1"
    ELSE IF Len(examples[1]) = 1 THEN "SELECT 2"
    ELSE "SELECT 3"

\* what the client of a preview holds: the response, similar queries
\* included
PreviewSummary(c) ==
    IF Summary(c) = None THEN None
    ELSE Some([question |-> c.question, sql |-> c.sql[1],
               genCalls |-> c.genCalls,
               similar |-> c.response[1].similar_queries])

\* a request for query(question, store_results, require_approval=True,
\* approved) of a client that keeps the preview it got
FlowStart(p) ==
    /\ p \in workers
    /\ Finished(call[p])
    /\ ncalls < MaxCalls
    /\ \E q \in Questions, sr \in BOOLEAN, ap \in BOOLEAN :
          call' = [call EXCEPT
                     ![p] = NewCall("query", q, sr, TRUE, ap, DefaultTopK)]
    /\ prev' = [prev EXCEPT ![p] = PreviewSummary(call[p])]
    /\ ncalls' = ncalls + 1
    /\ UNCHANGED <<store, clock, workers>>

\* a generation that passes no examples once the call is approved
GenerateStepDeterministicBare(p) ==
    /\ call[p].pc = "generate"
    /\ call[p].op = "query"
    /\ LET c == call[p]
           args == IF c.approved THEN None
                   ELSE GenArgs(ExamplePairs(c.similar))
           invoked == [c EXCEPT !.genCalls = @ + 1, !.genExamples = args,
                                !.trace = Append(@, "generate")]
           sql == Generator(c.question, args)
           got == [invoked EXCEPT !.sql = Some(sql), !.genOut = Some(sql)]
       IN  \/ call' = [call EXCEPT ![p] =
                  IF AwaitsApproval(c.require_approval, c.approved)
                  THEN [got EXCEPT !.pc = "returned",
                                   !.response = Some(PreviewResponse(c, sql))]
                  ELSE [got EXCEPT !.pc = "execute"]]
           \/ call' = [call EXCEPT ![p] = Raise(invoked, GenError, "generator")]
    /\ UNCHANGED <<store, clock, workers, prev, ncalls>>

\* generate_sql from the similar queries on, then the approval gate of
\* query, the Generator being deterministic
GenerateStepDeterministic(p) ==
    /\ call[p].pc = "generate"
    /\ call[p].op = "query"
    /\ LET c == call[p]
           args == GenArgs(ExamplePairs(c.similar))
           invoked == [c EXCEPT !.genCalls = @ + 1, !.genExamples = args,
                                !.trace = Append(@, "generate")]
           sql == Generator(c.question, args)
           got == [invoked EXCEPT !.sql = Some(sql), !.genOut = Some(sql)]
       IN  \/ call' = [call EXCEPT ![p] =
                  IF AwaitsApproval(c.require_approval, c.approved)
                  THEN [got EXCEPT !.pc = "returned",
                                   !.response = Some(PreviewResponse(c, sql))]
                  ELSE [got EXCEPT !.pc = "execute"]]
           \/ call' = [call EXCEPT ![p] = Raise(invoked, GenError, "generator")]
    /\ UNCHANGED <<store, clock, workers, prev, ncalls>>

NextFlow ==
    \E p \in Procs :
        \/ FlowStart(p)
        \/ EmbedStep(p)
        \/ VectorStep(p)
        \/ TextStep(p)
        \/ GenerateStepDeterministic(p)
        \/ ExecuteStep(p)
        \/ StoreStep(p)

SpecFlow == Init /\ [][NextFlow]_vars

(***************************************************************************)
(* Two requests for the same question served at the same time: the        *)
(* endpoint takes no lock, the two calls interleave step by step, and      *)
(* replace_one is the only atomic step.                                    *)
(***************************************************************************)
\* the questions two clients may ask at the same time
SharedQuestions == {QSaleCost, QTop}

\* the two threads are up, nothing has been asked yet
InitConcurrent ==
    /\ InitStore
    /\ workers = Procs
    /\ call = [p \in Procs |-> NoCall]
    /\ prev = [p \in Procs |-> None]
    /\ ncalls = 0

\* a request for query(question) with store_results=true and no approval
\* gate, for the question the other thread is serving if it is serving one
ConcurrentStart(p) ==
    /\ p \in workers
    /\ call[p].pc = "idle"
    /\ ncalls < MaxCalls
    /\ \E q \in SharedQuestions :
          /\ \A o \in Procs \ {p} :
                call[o].pc = "idle" \/ call[o].question = q
          /\ call' = [call EXCEPT
                        ![p] = NewCall("query", q, TRUE, FALSE, FALSE,
                                       DefaultTopK)]
    /\ prev' = [prev EXCEPT ![p] = Summary(call[p])]
    /\ ncalls' = ncalls + 1
    /\ UNCHANGED <<store, clock, workers>>

NextConcurrent ==
    \E p \in Procs :
        \/ ConcurrentStart(p)
        \/ EmbedStep(p)
        \/ VectorStep(p)
        \/ TextStep(p)
        \/ GenerateStep(p)
        \/ ExecuteStep(p)
        \/ StoreStep(p)

SpecConcurrent == InitConcurrent /\ [][NextConcurrent]_vars

(***************************************************************************)
(* Properties of the pipeline.                                             *)
(***************************************************************************)
\* the call is query(question, require_approval=true, approved=false)
IsPreviewCall(c) == c.op = "query" /\ c.require_approval /\ ~c.approved

\* the call is a query the gate lets through
IsExecutingCall(c) == c.op = "query" /\ (~c.require_approval \/ c.approved)

\* C1: a call query(question, require_approval=true, approved=false), for
\* every question and store_results, never invokes the Executor and never
\* invokes store_query_pair, and none of its steps changes the collection.
C1_ApprovalGateBlocks ==
    [][\A p \in Procs :
          IsPreviewCall(call'[p]) =>
              /\ call'[p].execCalls = 0
              /\ call'[p].upsertCalls = 0
              /\ call'[p] # call[p] => store' = store]_vars

\* a preview call with store_results=true has returned over a non-empty
\* history
C1_Witness ==
    \E p \in Procs :
        /\ IsPreviewCall(call[p])
        /\ call[p].store_results
        /\ call[p].pc = "returned"
        /\ store # <<>>

\* C2: the Executor is invoked exactly in the calls with require_approval
\* false or approved true whose generation succeeded: there exactly once,
\* with the SQL generated in that call; in every other call not at all.
C2_ExecutionIffGateOpen ==
    \A p \in Procs :
        LET c == call[p]
        IN  c.op = "query" =>
              /\ c.execCalls \in {0, 1}
              /\ c.execCalls = 1 =>
                    /\ IsExecutingCall(c)
                    /\ c.genOut # None
                    /\ c.execSql = c.genOut
              /\ (IsExecutingCall(c) /\ c.genOut # None /\ c.pc # "execute")
                    => c.execCalls = 1

\* a call with require_approval=false and approved=false has executed
C2_Witness ==
    \E p \in Procs :
        /\ call[p].op = "query"
        /\ ~call[p].require_approval
        /\ ~call[p].approved
        /\ call[p].pc = "returned"
        /\ call[p].execCalls = 1
        /\ call[p].execSql = Some("SELECT 2")

\* the call is the approved follow-up of the preview its client is holding:
\* query(Q, true, true) right after query(Q, true, false) returned
IsApprovedFollowUp(p) ==
    /\ call[p].op = "query"
    /\ call[p].require_approval
    /\ call[p].approved
    /\ prev[p] # None
    /\ prev[p][1].question = call[p].question

\* C3: generation runs in every call whatever the approval flags: over
\* query(Q, true, false) followed by query(Q, true, true) the Generator is
\* invoked exactly twice, once per call, and the SQL of the second call is
\* the one the Generator returned in the second call.
C3_GateRegenerates ==
    \A p \in Procs :
        LET c == call[p]
        IN  /\ (c.op = "query" /\ c.pc \in {"execute", "store", "returned"})
                => c.genCalls = 1 /\ c.genOut # None /\ c.sql = c.genOut
            /\ (IsApprovedFollowUp(p)
                /\ c.pc \in {"execute", "store", "returned"})
                => prev[p][1].genCalls + c.genCalls = 2

\* the approved follow-up has run with an SQL that differs from the preview's
C3_Witness ==
    \E p \in Procs :
        /\ IsApprovedFollowUp(p)
        /\ call[p].pc = "returned"
        /\ call[p].sql # Some(prev[p][1].sql)

\* the similar queries with was_successful true, in order, as {question, sql}
C4_Successful(similar) ==
    LET ok == SelectSeq(similar, LAMBDA r : r.was_successful = Some(TRUE))
    IN  [i \in 1..Len(ok) |-> [question |-> ok[i].question, sql |-> ok[i].sql]]

\* C4: the examples given to the Generator are exactly the retrieved similar
\* queries with was_successful true, in retrieval order, as {question, sql};
\* when there are none the Generator is invoked without an examples argument,
\* never with an empty list.
C4_ExamplesAreSuccessfulOnly ==
    \A p \in Procs :
        LET c == call[p]
        IN  c.genCalls > 0 =>
              /\ c.genExamples # Some(<<>>)
              /\ Len(C4_Successful(c.similar)) = 0 => c.genExamples = None
              /\ Len(C4_Successful(c.similar)) > 0 =>
                    /\ c.genExamples # None
                    /\ Len(c.genExamples[1]) = Len(C4_Successful(c.similar))
                    /\ \A i \in 1..Len(c.genExamples[1]) :
                          c.genExamples[1][i] = C4_Successful(c.similar)[i]

\* the Generator was invoked after a retrieval that returned a failed query
\* followed by a successful one: only the successful one is an example
C4_Witness ==
    \E p \in Procs :
        /\ call[p].genCalls = 1
        /\ Len(call[p].similar) = 2
        /\ call[p].similar[1].was_successful = Some(FALSE)
        /\ call[p].similar[2].was_successful = Some(TRUE)
        /\ call[p].genExamples # None
        /\ Len(call[p].genExamples[1]) = 1

\* the Executor raised in the call and the call is over
ExecutorRaised(c) ==
    c.op = "query" /\ c.execRaised # None /\ c.pc \in {"returned", "raised"}

\* C5: when the Executor raises during query and store_results is true,
\* store_query_pair is called exactly once in that call, with the question
\* and the SQL generated in that call, was_successful=false,
\* execution_time=0 and no result_preview.
C5_FailureStillStores ==
    \A p \in Procs :
        LET c == call[p]
        IN  (ExecutorRaised(c) /\ c.store_results) =>
              /\ c.upsertCalls = 1
              /\ c.upsertArgs # None
              /\ c.upsertArgs[1].question = c.question
              /\ Some(c.upsertArgs[1].sql) = c.genOut
              /\ c.upsertArgs[1].was_successful = Some(FALSE)
              /\ c.upsertArgs[1].execution_time = 0
              /\ c.upsertArgs[1].result_preview = None

\* the failed execution of "Sale cost" has been stored as a failed record
C5_Witness ==
    \E p \in Procs :
        /\ ExecutorRaised(call[p])
        /\ call[p].store_results
        /\ call[p].pc = "returned"
        /\ call[p].question = QSaleCost
        /\ \E i \in 1..Len(store) :
              /\ store[i].question = QSaleCost
              /\ store[i].was_successful = Some(FALSE)

\* C6: when the Executor raises during query and the storage, if requested,
\* succeeds, query does not raise: it returns a response with
\* was_successful=false, execution_time=0, error_message the stringified
\* execution error, and neither results nor result_preview.
C6_FailureResponse ==
    \A p \in Procs :
        LET c == call[p]
        IN  ExecutorRaised(c) =>
              /\ c.pc = "raised" => c.failed \cap {"store", "store_embedder"} # {}
              /\ c.pc = "returned" =>
                    /\ c.response # None
                    /\ c.response[1].was_successful = Some(FALSE)
                    /\ c.response[1].execution_time = 0
                    /\ "error_message" \in DOMAIN c.response[1]
                    /\ c.response[1].error_message = c.execRaised[1].msg
                    /\ "results" \notin DOMAIN c.response[1]
                    /\ "result_preview" \notin DOMAIN c.response[1]

\* query returned after the warehouse timed out, nothing being stored
C6_Witness ==
    \E p \in Procs :
        /\ ExecutorRaised(call[p])
        /\ ~call[p].store_results
        /\ call[p].pc = "returned"
        /\ call[p].execRaised = Some([msg |-> "timeout"])
        /\ call[p].response[1].error_message = "timeout"

\* the steps of the generation phase that failed in the call
GenerationFailures(c) ==
    c.failed \cap {"embedder", "vector", "text", "generator"}

\* C7 as stated: if the Embedder, the keyword or vector retrieval or the
\* Generator fails during the generation step of query, the failure
\* propagates: no response is returned, the Executor is not invoked and the
\* history store is left unchanged.
C7_AnyGenerationFailurePropagates ==
    \A p \in Procs :
        LET c == call[p]
        IN  (c.op = "query" /\ GenerationFailures(c) # {}) =>
              /\ c.response = None
              /\ c.execCalls = 0
              /\ c.upsertCalls = 0

\* C7 amended: if the Embedder, the keyword retrieval or the Generator fails
\* during the generation step of query, the failure propagates: the call
\* raises, no response is returned, the Executor and store_query_pair are not
\* invoked and the collection is left unchanged; a failure of the vector
\* search alone does not make the call raise.
C7_GenerationFailurePropagates ==
    [][\A p \in Procs :
          LET c == call'[p]
          IN  c.op = "query" =>
                /\ (GenerationFailures(c) \ {"vector"} # {}) =>
                      /\ c.pc = "raised"
                      /\ c.raised # None
                      /\ c.response = None
                      /\ c.execCalls = 0
                      /\ c.upsertCalls = 0
                      /\ store' = store
                /\ c.pc = "raised" => c.failed # {"vector"}]_vars

\* the Generator failed after a successful retrieval over a non-empty
\* history, and the call raised
C7_Witness ==
    \E p \in Procs :
        /\ call[p].op = "query"
        /\ call[p].failed = {"generator"}
        /\ call[p].pc = "raised"
        /\ ~call[p].require_approval
        /\ call[p].store_results
        /\ call[p].similar # <<>>

\* C8: store_query_pair is an insert-or-replace keyed by the exact question
\* text: the collection never holds two records with the same question, and
\* after an upsert for a question that already had a record every field of
\* the record (sql, execution_time, was_successful, result_preview and its
\* absence) is that of the latest call, nothing being kept from the old one.
C8_UpsertReplaces ==
    /\ \A i, j \in 1..Len(store) :
          store[i].question = store[j].question => i = j
    /\ \A p \in Procs :
          LET c == call[p]
          IN  (c.op = "query" /\ c.pc = "returned" /\ c.upsertCalls = 1) =>
                \E i \in 1..Len(store) :
                    LET d == store[i]
                        a == c.upsertArgs[1]
                    IN  /\ d.question = c.question
                        /\ d.sql = a.sql
                        /\ d.execution_time = a.execution_time
                        /\ d.was_successful = a.was_successful
                        /\ d.timestamp = clock - 1
                        /\ ("result_preview" \in DOMAIN d)
                              <=> (a.result_preview # None)
                        /\ ("result_preview" \in DOMAIN d)
                              => d.result_preview = a.result_preview[1]

\* the successful record of "Sale cost", which had a preview, has been
\* replaced by the record of a failed execution, which has none
C8_Witness ==
    \E p \in Procs :
        /\ call[p].op = "query"
        /\ call[p].pc = "returned"
        /\ call[p].upsertCalls = 1
        /\ call[p].question = QSaleCost
        /\ call[p].execRaised # None
        /\ ncalls = 1
        /\ Len(store) = 2
        /\ "result_preview" \notin DOMAIN store[1]

\* C9: find_similar_queries returns the result of the vector search when
\* that search succeeds with at least one result; otherwise (the vector
\* search raises, is unavailable or finds nothing) its outcome is that of the
\* keyword search; a failure of the vector search never reaches the caller.
C9_VectorThenKeyword ==
    \A p \in Procs :
        LET c == call[p]
        IN  /\ (c.vectorOut # None /\ c.vectorOut[1] # <<>>) =>
                  /\ c.similar = c.vectorOut[1]
                  /\ c.pc # "text"
                  /\ \A i \in 1..Len(c.trace) : c.trace[i] # "text"
            /\ ("vector" \in c.failed \/ c.vectorOut = Some(<<>>)) =>
                  /\ c.pc = "generate" =>
                        /\ c.trace = <<"embed", "vector", "text">>
                        /\ c.similar =
                              text_search(store, c.question, c.top_k)
                  /\ c.pc = "raised" => c.failed \ {"vector"} # {}

\* the vector search failed and the call went on with the two records the
\* keyword search found
C9_Witness ==
    \E p \in Procs :
        /\ "vector" \in call[p].failed
        /\ call[p].pc = "returned"
        /\ Len(call[p].similar) = 2
        /\ \A i \in 1..2 : "score" \notin DOMAIN call[p].similar[i]

\* C10: the keyword search never fails: for every question and every state
\* of the store _text_search yields a sequence and raises nothing.
C10_TextSearchNeverRaises ==
    \A p \in Procs :
        "text" \notin call[p].failed

\* the keyword search has just answered the call
AfterTextSearch(c) ==
    c.pc = "generate" /\ c.trace = <<"embed", "vector", "text">>

\* C11: in keyword fallback mode the tokens are the whitespace-separated
\* words of the question longer than 3 characters and every returned record
\* is a stored question containing at least one of them, letter case
\* ignored; a question with no word longer than 3 characters yields no
\* keyword matches.
C11_KeywordMatchesContainToken ==
    \A p \in Procs :
        LET c == call[p]
            tokens == Keywords(c.question)
        IN  AfterTextSearch(c) =>
              \A i \in 1..Len(c.similar) :
                  \E k \in 1..Len(tokens) :
                      Contains(Lower(c.similar[i].question), tokens[k])

\* C12: for every question, every state of the store and every top_k >= 0,
\* 0 included, find_similar_queries returns at most top_k records, in vector
\* mode and in keyword fallback mode.
C12_AtMostTopK ==
    \A p \in Procs :
        LET c == call[p]
        IN  (c.op = "find_similar" /\ c.pc = "returned") =>
              Len(c.response[1].similar_queries) <= c.top_k

\* s is an initial part of t
IsPrefix(s, t) == Len(s) <= Len(t) /\ s = SubSeq(t, 1, Len(s))

\* the orders in which one query may go through its steps: the keyword
\* search is part of the retrieval when the vector search gave nothing
QueryOrders ==
    {<<"embed", "vector", "generate", "execute", "store">>,
     <<"embed", "vector", "text", "generate", "execute", "store">>}

\* the retrieval of the call has returned its similar queries
RetrievalReturned(c) ==
    \/ /\ IsPrefix(<<"embed", "vector", "generate">>, c.trace)
       /\ c.vectorOut # None
       /\ c.vectorOut[1] # <<>>
       /\ c.similar = c.vectorOut[1]
    \/ IsPrefix(<<"embed", "vector", "text", "generate">>, c.trace)

\* C13: within one query the steps occur in the order embed, retrieve,
\* generate, gate, execute, store: the Generator is not called before the
\* retrieval has returned, the Executor not before the Generator has
\* returned, store_query_pair not before the execution attempt is over.
C13_StepOrder ==
    \A p \in Procs :
        LET c == call[p]
        IN  c.op = "query" =>
              /\ \E o \in QueryOrders : IsPrefix(c.trace, o)
              /\ c.genCalls > 0 => RetrievalReturned(c)
              /\ c.execCalls > 0 =>
                    /\ c.genCalls = 1
                    /\ c.genOut # None
                    /\ c.execSql = c.genOut
                    /\ ~AwaitsApproval(c.require_approval, c.approved)
              /\ c.upsertCalls > 0 =>
                    /\ c.execCalls = 1
                    /\ c.was_successful # None
                    /\ (c.execOut # None) # (c.execRaised # None)

C13_Witness ==
    \E p \in Procs :
        /\ call[p].op = "query"
        /\ call[p].pc = "returned"
        /\ call[p].trace =
             <<"embed", "vector", "text", "generate", "execute", "store">>
        /\ call[p].execRaised # None

\* a query that does not ask for its pair to be stored
IsUnstoredQuery(c) == c.op = "query" /\ ~c.store_results

\* C14: with store_results=false query calls store_query_pair on no path
\* (awaiting approval, execution success, execution failure) and no step of
\* the call changes the history store, while the response still reports the
\* outcome of the execution.
C14_NoStoreWhenNotRequested ==
    /\ [](\A p \in Procs :
            LET c == call[p]
            IN  IsUnstoredQuery(c) =>
                  /\ c.upsertCalls = 0
                  /\ "store" \notin {c.trace[i] : i \in 1..Len(c.trace)}
                  /\ (c.pc = "returned" /\ c.execCalls = 1) =>
                        /\ c.response[1].was_successful = c.was_successful
                        /\ c.was_successful =
                               Some(c.execOut # None)
                        /\ c.execRaised # None =>
                               c.response[1].error_message =
                                   c.execRaised[1].msg)
    /\ [][\A p \in Procs :
            (IsUnstoredQuery(call[p]) /\ call'[p] # call[p]
             /\ ~Finished(call[p])) => store' = store]_vars

C14_Witness ==
    \E p \in Procs :
        /\ IsUnstoredQuery(call[p])
        /\ call[p].pc = "returned"
        /\ call[p].execRaised # None
        /\ call[p].response[1].was_successful = Some(FALSE)
        /\ store = SeededStore

\* C15: in every state of the history store reached by query and
\* store-question-sql-pair operations, every record has was_successful true
\* or false, never unset, and every record with was_successful=false has no
\* result_preview and execution_time 0.
C15_StoredOutcomeIsDefinite ==
    \A i \in 1..Len(store) :
        /\ store[i].was_successful \in {Some(TRUE), Some(FALSE)}
        /\ store[i].was_successful = Some(FALSE) =>
              /\ "result_preview" \notin DOMAIN store[i]
              /\ store[i].execution_time = 0

C15_Witness ==
    \E p \in Procs :
        /\ call[p].op = "store_pair"
        /\ call[p].pc = "returned"
        /\ call[p].execOut # None
        /\ call[p].upsertCalls = 2
        /\ \E i \in 1..Len(store) :
              /\ store[i].question = call[p].question
              /\ store[i].was_successful = Some(FALSE)
              /\ store[i].timestamp = clock - 1

\* the record the call has written: the call is over and is the last writer
Written(c) ==
    /\ c.op = "query"
    /\ c.pc = "returned"
    /\ c.upsertCalls = 1

\* the record of the history store with the question of the call
RecordOf(c) ==
    store[CHOOSE i \in 1..Len(store) : store[i].id = Md5(c.question)]

\* C16 as stated: a stored record carries a result_preview only for a
\* successful execution that returned at least one row; the field is absent
\* when the execution failed and when the result set was empty.
C16_PreviewOnlyWithRows ==
    \A p \in Procs :
        LET c == call[p]
        IN  Written(c) =>
              ("result_preview" \in DOMAIN RecordOf(c)
                 <=> (c.execOut # None /\ c.execOut[1].rows # <<>>))

\* C16: a stored record carries a result_preview exactly when the execution
\* succeeded: the text of the first rows, or the literal "No results" text
\* when the result set was empty; the field is absent when the execution
\* failed.
C16_PreviewIffSuccess ==
    \A p \in Procs :
        LET c == call[p]
            doc == RecordOf(c)
        IN  Written(c) =>
              /\ "result_preview" \in DOMAIN doc <=> c.execOut # None
              /\ c.execOut # None =>
                    doc.result_preview.text =
                        IF c.execOut[1].rows = <<>> THEN "No results"
                        ELSE "table"

C16_Witness ==
    \E p \in Procs :
        /\ Written(call[p])
        /\ call[p].execOut # None
        /\ call[p].execOut[1].rows = <<>>
        /\ RecordOf(call[p]).result_preview.text = "No results"

\* the query has executed its SQL with success and has returned
ReturnedSuccess(c) ==
    c.op = "query" /\ c.pc = "returned" /\ c.execOut # None

\* C17: when the execution succeeds the response of query has
\* was_successful=true, the execution_time the Executor reported, a results
\* field, a result_preview made of the first 5 rows (the literal
\* "No results" text when there are none), no error_message field, and
\* requires_approval and approved equal to the arguments of the call.
C17_SuccessResponse ==
    \A p \in Procs :
        LET c == call[p]
            r == c.response[1]
            rows == c.execOut[1].rows
        IN  ReturnedSuccess(c) =>
              /\ r.was_successful = Some(TRUE)
              /\ r.execution_time = c.execOut[1].time
              /\ "results" \in DOMAIN r
              /\ r.results = Some(rows)
              /\ "result_preview" \in DOMAIN r
              /\ r.result_preview =
                    IF rows = <<>>
                    THEN [text |-> "No results", rows |-> <<>>]
                    ELSE [text |-> "table",
                          rows |-> [i \in 1..Min(5, Len(rows)) |-> rows[i]]]
              /\ "error_message" \notin DOMAIN r
              /\ r.requires_approval = c.require_approval
              /\ r.approved = c.approved
              /\ r.question = c.question
              /\ r.sql = c.genOut[1]

C17_Witness ==
    \E p \in Procs :
        /\ ReturnedSuccess(call[p])
        /\ Len(call[p].execOut[1].rows) = 6
        /\ Len(call[p].response[1].result_preview.rows) = 5
        /\ call[p].require_approval
        /\ call[p].approved

\* the query has stopped at the approval gate
AtGate(c) ==
    /\ IsPreviewCall(c)
    /\ c.genOut # None
    /\ Finished(c)

\* C18 as stated: the awaiting-approval response of query is a normal
\* return made of question, the generated sql, similar_queries,
\* requires_approval=true, approved=false, was_successful=null and
\* execution_time=0.
C18_PreviewResponseHasApproved ==
    \A p \in Procs :
        LET c == call[p]
            r == c.response[1]
        IN  AtGate(c) =>
              /\ c.pc = "returned"
              /\ r.question = c.question
              /\ r.sql = c.genOut[1]
              /\ r.similar_queries = c.similar
              /\ r.requires_approval = TRUE
              /\ "approved" \in DOMAIN r
              /\ r.approved = FALSE
              /\ r.was_successful = None
              /\ r.execution_time = 0

\* C18: the awaiting-approval response of query is a normal return, not an
\* error, made of question, the generated sql, similar_queries equal to the
\* retrieval result, requires_approval=true, awaiting_approval=true,
\* was_successful=null and execution_time=0; it has no approved field.
C18_PreviewResponseShape ==
    \A p \in Procs :
        LET c == call[p]
            r == c.response[1]
        IN  AtGate(c) =>
              /\ c.pc = "returned"
              /\ c.raised = None
              /\ DOMAIN r = {"question", "sql", "similar_queries",
                             "requires_approval", "awaiting_approval",
                             "was_successful", "execution_time"}
              /\ r.question = c.question
              /\ r.sql = c.genOut[1]
              /\ r.similar_queries = c.similar
              /\ r.requires_approval = TRUE
              /\ r.awaiting_approval = TRUE
              /\ r.was_successful = None
              /\ r.execution_time = 0

C18_Witness ==
    \E p \in Procs :
        /\ AtGate(call[p])
        /\ call[p].similar # <<>>
        /\ call[p].response[1].awaiting_approval

\* the call wrote, or tried to write, a failed pair after an error of the
\* execution, and that write failed
FailedStoreAfterExecError(c) ==
    /\ c.op \in {"query", "store_pair"}
    /\ c.store_results
    /\ c.execRaised # None
    /\ c.failed \cap {"store", "store_embedder"} # {}
    /\ Finished(c)

\* C19: on every path that stores a failed query after an execution error
\* (query with store_results=true, the store-question-sql-pair endpoint) a
\* failure of the store write is caught and appended to the error_message
\* instead of being raised: the caller receives a response with
\* was_successful=false that names the execution error.
C19_StoreFailureIsCaught ==
    \A p \in Procs :
        LET c == call[p]
            r == c.response[1]
        IN  FailedStoreAfterExecError(c) =>
              /\ c.pc = "returned"
              /\ r.was_successful = Some(FALSE)
              /\ IF c.op = "query"
                 THEN r.error_message = c.execRaised[1].msg
                 ELSE /\ r.error_message[1] = c.execRaised[1].msg
                      /\ MentionsFailedToStore(r.error_message)

\* the execution succeeded and the upsert of the query failed
UpsertFailedAfterSuccess(c) ==
    /\ c.op = "query"
    /\ c.store_results
    /\ c.execOut # None
    /\ "store" \in c.failed

\* C20: when the execution succeeds in query with store_results=true and
\* the upsert fails, the storage error propagates to the caller: no response
\* is returned and the step writes no record.
C20_UpsertFailurePropagates ==
    /\ [](\A p \in Procs :
            LET c == call[p]
            IN  UpsertFailedAfterSuccess(c) =>
                  /\ c.pc = "raised"
                  /\ c.raised = Some(StoreError)
                  /\ c.response = None
                  /\ c.upsertCalls = 1)
    /\ [][\A p \in Procs :
            (~UpsertFailedAfterSuccess(call[p])
             /\ UpsertFailedAfterSuccess(call'[p])) => store' = store]_vars

C20_Witness ==
    \E p \in Procs :
        /\ UpsertFailedAfterSuccess(call[p])
        /\ call[p].pc = "raised"
        /\ store = SeededStore

\* the positions of the records of the question in the collection
RecordsOf(coll, question) ==
    {i \in 1..Len(coll) : coll[i].id = Md5(question)}

\* the step is the upsert of the query of p
Upserts(p) ==
    /\ call[p].op = "query"
    /\ call[p].pc = "store"
    /\ call'[p].pc = "returned"
    /\ call'[p].upsertCalls = 1

\* C21: when two queries for the same question run concurrently with no
\* mutual exclusion, every interleaving ends with exactly one record for the
\* question, and that record is in full the one written by the upsert that
\* happened last: each upsert leaves its own document, whole, as the single
\* record of the question, and nothing but an upsert changes it.
C21_LastWriteWins ==
    /\ [](\A q \in Questions : Cardinality(RecordsOf(store, q)) <= 1)
    /\ [][\A p \in Procs :
            Upserts(p) =>
              LET c == call[p]
                  a == UpsertArgs(c)
              IN  /\ Cardinality(RecordsOf(store', c.question)) = 1
                  /\ \A i \in RecordsOf(store', c.question) :
                        store'[i] = Document(a.question, a.sql,
                                             a.execution_time,
                                             a.was_successful,
                                             a.result_preview, clock)]_vars
    /\ [][(store' # store) => \E p \in Procs : Upserts(p)]_vars

\* both calls have answered, each has written, with different SQL
C21_Witness ==
    /\ \A p \in Procs :
          /\ call[p].op = "query"
          /\ call[p].pc = "returned"
          /\ call[p].upsertCalls = 1
          /\ call[p].question = QSaleCost
    /\ call[1].sql # call[2].sql
    /\ call[1].was_successful # call[2].was_successful
    /\ Cardinality(RecordsOf(store, QSaleCost)) = 1

\* find_similar_queries(Q, top_k) with top_k >= 1 is over, it ran in
\* keyword fallback mode, and the store holds a record of Q
KeywordReadAfterWrite(c) ==
    /\ c.op = "find_similar"
    /\ c.top_k >= 1
    /\ Finished(c)
    /\ IsPrefix(<<"embed", "vector">>, c.trace)
    /\ c.vectorOut \in {None, Some(<<>>)}
    /\ RecordsOf(store, c.question) # {}

\* C22: after a record has been stored for question Q, a later
\* find_similar_queries(Q, top_k) with top_k >= 1 returns the record of Q
\* (its question and its SQL) as its first result whatever other records the
\* store holds; stated here for the keyword fallback mode, one of the two
\* modes the claim covers.
C22_ReadAfterWriteKeyword ==
    \A p \in Procs :
        LET c == call[p]
        IN  KeywordReadAfterWrite(c) =>
              /\ c.pc = "returned"
              /\ c.similar # <<>>
              /\ c.similar[1].question = c.question
              /\ \A i \in RecordsOf(store, c.question) :
                    c.similar[1].sql = store[i].sql

\* the history is ordered by timestamp, latest first, shows no id and no
\* embedding, and shows each stored question once, with its latest write
HistoryWellFormed(history) ==
    /\ \A i, j \in 1..Len(history) :
          i < j => history[i].timestamp.iso > history[j].timestamp.iso
    /\ \A i \in 1..Len(history) :
          /\ DOMAIN history[i] \cap {"id", "embedding"} = {}
          /\ \E k \in 1..Len(store) :
                /\ store[k].question = history[i].question
                /\ store[k].sql = history[i].sql
                /\ store[k].timestamp = history[i].timestamp.iso
    /\ \A i, j \in 1..Len(history) :
          history[i].question = history[j].question => i = j

\* C23: get_query_history(limit) returns, for every limit >= 0, 0 included,
\* and every state of the store, at most limit projections ordered by
\* timestamp descending, each without the id and the embedding; a question
\* asked and stored again appears once, at the position of its latest write.
C23_HistoryAtMostLimit ==
    \A p \in Procs :
        LET c == call[p]
        IN  (c.op = "history" /\ c.pc = "returned") =>
              /\ Len(c.response[1].history) <= c.limit
              /\ HistoryWellFormed(c.response[1].history)

\* C24: the generate-only operation performs the generation step only:
\* whatever the store_results, require_approval and approved fields of the
\* request, it never calls the Executor, never calls store_query_pair, and
\* no step of it changes the history store.
C24_GenerateOnlyHasNoEffect ==
    /\ [](\A p \in Procs :
            LET c == call[p]
            IN  c.op = "generate_sql" =>
                  /\ c.execCalls = 0
                  /\ c.upsertCalls = 0
                  /\ c.pc \notin {"execute", "store"}
                  /\ c.pc = "returned" =>
                        /\ c.genCalls = 1
                        /\ c.response[1].sql = c.genOut[1]
                        /\ c.response[1].similar_queries = c.similar)
    /\ [][\A p \in Procs :
            (call[p].op = "generate_sql" /\ call'[p] # call[p]
             /\ ~Finished(call[p])) => store' = store]_vars

C24_Witness ==
    \E p \in Procs :
        /\ call[p].op = "generate_sql"
        /\ call[p].pc = "returned"
        /\ call[p].store_results
        /\ ~call[p].require_approval
        /\ store = SeededStore

\* the ids of the stored questions
StoredIds(coll) == {coll[i].id : i \in 1..Len(coll)}

\* the step is the storage step of the operation of p
IsStorageStep(p) ==
    /\ call[p].pc \in {"store", "pair_store", "pair_store_failed"}
    /\ call'[p].upsertCalls = call[p].upsertCalls + 1
    /\ call[p].op = "query" => call'[p].pc = "returned"

\* C25: one query writes to the history store at most once and only in its
\* final storage step: no earlier step of any operation changes the store;
\* and no operation deletes a record: the set of stored question ids never
\* shrinks.
C25_WritesOnlyInStorageStep ==
    /\ [](\A p \in Procs : call[p].op = "query" => call[p].upsertCalls <= 1)
    /\ [][(store' # store) => \E p \in Procs : IsStorageStep(p)]_vars
    /\ [][StoredIds(store) \subseteq StoredIds(store')]_vars

C25_Witness ==
    \E p \in Procs :
        /\ call[p].op = "query"
        /\ call[p].pc = "returned"
        /\ call[p].upsertCalls = 1
        /\ call[p].question = QTop
        /\ Len(store) = 3

\* the Generator has been called and the store is as the retrieval saw it
Generated(c) ==
    c.op = "query" /\ c.genCalls = 1 /\ c.upsertCalls = 0

\* the examples passed to the Generator, none if it got no examples argument
ExamplesOf(c) ==
    IF c.genExamples = None THEN {}
    ELSE {c.genExamples[1][i] : i \in 1..Len(c.genExamples[1])}

\* C26: over any sequence of queries, a pair whose stored record has
\* was_successful=false at retrieval time is never passed to the Generator
\* as an example: every example is the question and the SQL of a record
\* that is stored with was_successful=true, so a failed question is an
\* example only once a later run has overwritten its record as successful.
C26_FailedNeverExample ==
    \A p \in Procs :
        LET c == call[p]
        IN  Generated(c) =>
              /\ \A e \in ExamplesOf(c) :
                    \E i \in 1..Len(store) :
                        /\ store[i].question = e.question
                        /\ store[i].sql = e.sql
                        /\ store[i].was_successful = Some(TRUE)
              /\ \A i \in 1..Len(store) :
                    store[i].was_successful = Some(FALSE) =>
                        \A e \in ExamplesOf(c) :
                            e.question # store[i].question

\* "cost(", stored as failed by an earlier run, has been asked again with
\* success and is now passed as an example
C26_Witness ==
    \E p \in Procs :
        /\ Generated(call[p])
        /\ Len(store) = 2
        /\ store[1].timestamp = 1
        /\ store[2].question = QCostParen
        /\ store[2].timestamp = 3
        /\ store[2].was_successful = Some(TRUE)
        /\ \E e \in ExamplesOf(call[p]) : e.question = QCostParen

\* the call belongs to the approval flow of the command line
InApprovalFlow(c) == c.cli \in {"preview", "cancelled", "confirmed", "approved"}

\* C27: in the approval flow of the command line the Executor is invoked
\* for a question only after a call with approved=false has returned SQL
\* for it and the user has answered y or yes; when the user answers n or no
\* the flow ends as cancelled, with no call of the Executor, no upsert for
\* the question, and no approved call after it.
C27_CliExecutesOnlyAfterYes ==
    /\ [](\A p \in Procs :
            LET c == call[p]
            IN  InApprovalFlow(c) =>
                  /\ c.execCalls > 0 =>
                        /\ c.cli = "approved"
                        /\ c.approved
                        /\ c.answer \in {Some(<<"y">>),
                                         Some(<<"y", "e", "s">>)}
                        /\ prev[p] # None
                        /\ prev[p][1].question = c.question
                  /\ c.cli = "cancelled" =>
                        /\ c.answer \in {Some(<<"n">>), Some(<<"n", "o">>)}
                        /\ c.execCalls = 0
                        /\ c.upsertCalls = 0)
    /\ [][\A p \in Procs :
            call[p].cli = "cancelled" =>
              /\ call'[p].cli # "approved"
              /\ call'[p].cli = "cancelled" => store' = store]_vars
    /\ [][\A p \in Procs :
            (call[p].cli = "preview" /\ call'[p].cli # "preview")
              => store' = store]_vars

C27_Witness ==
    \E p \in Procs :
        /\ call[p].cli = "approved"
        /\ call[p].pc = "returned"
        /\ call[p].execCalls = 1
        /\ call[p].upsertCalls = 1
        /\ call[p].answer = Some(<<"y", "e", "s">>)

\* the approved call that follows the preview of the same question has
\* called the Executor; no operation ran between the two calls
ApprovedRun(p) ==
    /\ IsApprovedFollowUp(p)
    /\ call[p].execCalls = 1

ReturnedAfterExecution(c) ==
    c.op = "query" /\ c.pc = "returned" /\ c.execCalls = 1

\* C29: within one query that reaches execution, the SQL passed to the
\* Executor, the SQL written to the history record and the sql of the
\* response are the same value, and the was_successful and execution_time
\* of the record equal those of the response.
C29_OneSqlOneOutcome ==
    \A p \in Procs :
        LET c == call[p]
            r == c.response[1]
        IN  ReturnedAfterExecution(c) =>
              /\ c.execSql = Some(r.sql)
              /\ r.sql = c.genOut[1]
              /\ c.upsertCalls = 1 =>
                    /\ c.upsertArgs[1].sql = r.sql
                    /\ RecordOf(c).sql = r.sql
                    /\ RecordOf(c).was_successful = r.was_successful
                    /\ RecordOf(c).execution_time = r.execution_time

C29_Witness ==
    \E p \in Procs :
        /\ ReturnedAfterExecution(call[p])
        /\ call[p].upsertCalls = 1
        /\ call[p].execOut # None
        /\ RecordOf(call[p]).execution_time = 2
        /\ RecordOf(call[p]).sql = "SELECT 2"

\* the endpoint has executed the SQL of the pair with success and is over
PairExecuted(c) ==
    c.op = "store_pair" /\ c.execOut # None /\ c.pc = "returned"

\* C30: the store-question-sql-pair endpoint writes a record with
\* was_successful=false only when the execution of the supplied SQL failed:
\* when the execution succeeds, no storage failure or recovery makes it
\* store the pair as unsuccessful or return was_successful=false for it.
C30_PairSuccessStaysSuccess ==
    \A p \in Procs :
        LET c == call[p]
        IN  PairExecuted(c) =>
              /\ c.response[1].was_successful = Some(TRUE)
              /\ c.upsertArgs # None =>
                    c.upsertArgs[1].was_successful = Some(TRUE)
              /\ \A i \in RecordsOf(store, c.question) :
                    store[i].timestamp = clock - 1 =>
                        store[i].was_successful = Some(TRUE)

====
